---- MODULE Spec2Model ----
(***************************************************************************)
(* Model of plugins/modules/keycloak_user_federation.py: one run of main() *)
(* reconciles a desired user federation and its mappers against the        *)
(* components held by a Keycloak realm.                                     *)
(*                                                                         *)
(* Python dicts are functions from key strings to values; a key whose      *)
(* value is None is a key absent from the function, and {} is the empty    *)
(* function.  Python lists are sequences.  Component ids are naturals,     *)
(* the realm is component 0.                                               *)
(***************************************************************************)
EXTENDS Integers, Sequences, FiniteSets, TLC

VARIABLES kc, pc, module, failAt, result, calls, pre, prev

vars == <<kc, pc, module, failAt, result, calls, pre, prev>>

-----------------------------------------------------------------------------
(* Bounds of the model *)

\* component ids the realm can hand out are 1..MaxId
MaxId == 5
\* longest desired mappers list
MaxMappers == 2
\* number of distinct lastSync timestamps the realm writes
MaxSync == 1

-----------------------------------------------------------------------------
(* Dict and list helpers *)

EmptyDict == <<>>

None == -1

Has(d, k) == k \in DOMAIN d

\* old.copy(); old.update(new)
DictUpdate(old, new) ==
    [k \in (DOMAIN old) \cup (DOMAIN new) |-> IF k \in DOMAIN new THEN new[k] ELSE old[k]]

\* d.pop(k, None) on a copy
DictPop(d, k) == [x \in (DOMAIN d) \ {k} |-> d[x]]

DictSet(d, k, v) == [x \in (DOMAIN d) \cup {k} |-> IF x = k THEN v ELSE d[x]]

\* x in list
InList(x, list) == \E i \in 1..Len(list) : list[i] = x

\* order of the strings used as names, as Python compares them
NameRank(s) ==
    CASE s = "" -> 0
      [] s = "a" -> 1
      [] s = "b" -> 2
      [] s = "f" -> 3
      [] OTHER -> 4

\* key=lambda x: x.get('name') or ''
SortKey(x) == IF Has(x, "name") THEN NameRank(x.name) ELSE NameRank("")

\* insertion of x after every element whose key is not greater: a stable sort step
RECURSIVE InsertSorted(_, _)
InsertSorted(x, list) ==
    IF list = <<>> THEN <<x>>
    ELSE IF SortKey(x) < SortKey(Head(list)) THEN <<x>> \o list
    ELSE <<Head(list)>> \o InsertSorted(x, Tail(list))

\* sorted(list, key=lambda x: x.get('name') or ''), which is stable
RECURSIVE SortByNameFrom(_, _, _)
SortByNameFrom(list, i, acc) ==
    IF i > Len(list) THEN acc
    ELSE SortByNameFrom(list, i + 1, InsertSorted(list[i], acc))

SortByName(list) == SortByNameFrom(list, 1, <<>>)

-----------------------------------------------------------------------------
(* Program constants *)

FedType == "org.keycloak.storage.UserStorageProvider"

MapperType == "org.keycloak.storage.ldap.mappers.LDAPStorageMapper"

Mask == "**********"

RealmId == 0

NoMapperProviders == {"kerberos", "sssd"}

NotCompParams ==
    {"auth_keycloak_url", "auth_client_id", "auth_realm", "auth_client_secret",
     "auth_username", "auth_password", "validate_certs", "token", "refresh_token",
     "connection_timeout", "http_agent",
     "state", "realm", "mappers", "remove_unspecified_mappers",
     "bind_credential_update_mode"}

\* camel(): snake_case parameter name to the camelCase wire name
camel(k) ==
    CASE k = "provider_id" -> "providerId"
      [] k = "provider_type" -> "providerType"
      [] k = "parent_id" -> "parentId"
      [] OTHER -> k

-----------------------------------------------------------------------------
(* Value codec, normalisation, sanitisation *)

\* str(v).lower() of the non-string values that occur: booleans and small integers
Lower(s) ==
    CASE s = "True" -> "true"
      [] s = "False" -> "false"
      [] OTHER -> s

\* an encoding that lowers string values as well
EncodeValueLowerAll(v) == <<Lower(v.v)>>

\* a typed parameter value is [t |-> "none" | "str" | "bool" | "int", v |-> str(value)]
\* [str(v).lower() if not isinstance(v, str) else v]
EncodeValue(v) == <<IF v.t = "str" THEN v.v ELSE Lower(v.v)>>

\* {k: [...] for k, v in config.items() if config[k] is not None}
EncodeConfig(config) ==
    [k \in {x \in DOMAIN config : config[x].t # "none"} |-> EncodeValue(config[k])]

\* the mapper loop of the codec: each mapper's config, when given, is encoded
EncodeMapper(mapper) ==
    IF Has(mapper, "config")
    THEN [mapper EXCEPT !.config = EncodeConfig(mapper.config)]
    ELSE mapper

EncodeMappers(mappers) == [i \in 1..Len(mappers) |-> EncodeMapper(mappers[i])]

\* module.params after the codec has rewritten config and the mappers' configs
EncodeParams(params) ==
    LET p1 == IF Has(params, "config")
              THEN [params EXCEPT !.config = EncodeConfig(params.config)]
              ELSE params
    IN IF Has(p1, "mappers")
       THEN [p1 EXCEPT !.mappers = EncodeMappers(p1.mappers)]
       ELSE p1

\* a normalisation that leaves the timestamp of the last sync in place
normalizeKeepLastSync(comp) ==
    IF Has(comp, "config")
    THEN IF Has(comp.config, "krbPrincipalAttribute")
         THEN comp
         ELSE [comp EXCEPT !.config = DictSet(comp.config, "krbPrincipalAttribute", <<"">>)]
    ELSE comp

\* a normalisation that does not put the empty krbPrincipalAttribute back
normalizeLastSyncOnly(comp) ==
    IF Has(comp, "config")
    THEN [comp EXCEPT !.config = DictPop(comp.config, "lastSync")]
    ELSE comp

normalize_kc_comp(comp) ==
    IF Has(comp, "config")
    THEN LET c1 == IF Has(comp.config, "krbPrincipalAttribute")
                   THEN comp.config
                   ELSE DictSet(comp.config, "krbPrincipalAttribute", <<"">>)
         IN [comp EXCEPT !.config = DictPop(c1, "lastSync")]
    ELSE comp

\* {k: v[0] for k, v in config.items()}
Unwrap(config) == [k \in DOMAIN config |-> config[k][1]]

SanitizeMapper(mapper) ==
    IF Has(mapper, "config")
    THEN [mapper EXCEPT !.config = Unwrap(mapper.config)]
    ELSE mapper

\* a sanitize that unwraps the values and leaves the secret as it is
sanitizeUnmasked(comp) ==
    LET c1 == IF Has(comp, "config")
              THEN [comp EXCEPT !.config = Unwrap(comp.config)]
              ELSE comp
    IN IF Has(c1, "mappers")
       THEN [c1 EXCEPT !.mappers =
                [i \in 1..Len(c1.mappers) |-> SanitizeMapper(c1.mappers[i])]]
       ELSE c1

sanitize(comp) ==
    LET c1 == IF Has(comp, "config")
              THEN LET u == Unwrap(comp.config)
                   IN [comp EXCEPT !.config =
                          IF Has(u, "bindCredential")
                          THEN [u EXCEPT !.bindCredential = Mask]
                          ELSE u]
              ELSE comp
    IN IF Has(c1, "mappers")
       THEN [c1 EXCEPT !.mappers =
                [i \in 1..Len(c1.mappers) |-> SanitizeMapper(c1.mappers[i])]]
       ELSE c1

-----------------------------------------------------------------------------
(* The realm's component store behind KeycloakAPI.  kc is the list of        *)
(* stored components, federations and mappers alike, in creation order.     *)

Ids == 1..MaxId

UsedIds(store) == {store[i].id : i \in 1..Len(store)}

FreeIds(store) == Ids \ UsedIds(store)

\* the id the realm assigns to a component sent without one
FreshId(store) == CHOOSE i \in FreeIds(store) : \A j \in FreeIds(store) : i <= j

\* what the realm keeps of a submitted config: the secret is write-only (only
\* the fact that one is set can be read back, as the mask) and an empty
\* krbPrincipalAttribute is deleted
StoreConfig(config) ==
    LET c1 == IF Has(config, "bindCredential")
              THEN [config EXCEPT !.bindCredential = <<Mask>>]
              ELSE config
    IN IF Has(c1, "krbPrincipalAttribute") /\ c1.krbPrincipalAttribute = <<"">>
       THEN DictPop(c1, "krbPrincipalAttribute")
       ELSE c1

\* the stored form of a payload: config always present, parentId defaults to the realm
StoreComponent(payload, id) ==
    LET c1 == DictSet(payload, "id", id)
        c2 == IF Has(c1, "parentId") THEN c1 ELSE DictSet(c1, "parentId", RealmId)
    IN DictSet(c2, "config",
               StoreConfig(IF Has(payload, "config") THEN payload.config ELSE EmptyDict))

\* the mapper Keycloak provisions by itself for a new ldap federation
DefaultMapper(parent, id) ==
    [id |-> id, name |-> "a", parentId |-> parent,
     providerId |-> "user-attribute-ldap-mapper", providerType |-> MapperType,
     config |-> [x |-> <<"1">>, y |-> <<"2">>]]

HasDefaultMappers(comp) ==
    /\ Has(comp, "providerType") /\ comp.providerType = FedType
    /\ Has(comp, "providerId") /\ comp.providerId = "ldap"

\* get_components(type=..., name=...)
get_components_by_name(store, name) ==
    SelectSeq(store, LAMBDA c : Has(c, "providerType") /\ c.providerType = FedType
                                /\ Has(c, "name") /\ c.name = name)

\* get_components(parent=...)
get_components_by_parent(store, parent) ==
    SelectSeq(store, LAMBDA c : c.parentId = parent)

\* get_component(cid): the component, or None (here the empty dict)
get_component(store, cid) ==
    LET found == SelectSeq(store, LAMBDA c : c.id = cid)
    IN IF found = <<>> THEN EmptyDict ELSE found[1]

\* the id a create call stores the payload under
CreatedId(store, payload) == IF Has(payload, "id") THEN payload.id ELSE FreshId(store)

create_component(store, payload) ==
    LET id == CreatedId(store, payload)
        s1 == Append(store, StoreComponent(payload, id))
    IN IF HasDefaultMappers(payload)
       THEN Append(s1, DefaultMapper(id, FreshId(s1)))
       ELSE s1

update_component(store, payload) ==
    [i \in 1..Len(store) |->
        IF store[i].id = payload.id THEN StoreComponent(payload, payload.id) ELSE store[i]]

\* delete_component(cid): the component goes, and its children with it
delete_component(store, cid) ==
    SelectSeq(store, LAMBDA c : c.id # cid /\ c.parentId # cid)

-----------------------------------------------------------------------------
(* Remote calls as main() issues them.  A session threads the store and the *)
(* log of calls through a run; err is set when a call raised KeycloakError. *)
(* fa is the number of the mutating call the realm rejects (0: none).       *)

Call(op, id, name, comp) == [op |-> op, id |-> id, name |-> name, comp |-> comp]

Mutating(call) == call.op \in {"create", "update", "delete"}

Mutations(log) == SelectSeq(log, Mutating)

NewSession(store) == [kc |-> store, calls |-> <<>>, err |-> FALSE]

Log(s, call) == [s EXCEPT !.calls = Append(@, call)]

\* the next mutating call is the one the realm rejects
Rejected(s, fa) == Len(Mutations(s.calls)) + 1 = fa

DoCreate(s, payload, fa) ==
    IF s.err THEN s
    ELSE IF Rejected(s, fa)
         THEN [Log(s, Call("create", None, "", payload)) EXCEPT !.err = TRUE]
         ELSE [Log(s, Call("create", None, "", payload))
                  EXCEPT !.kc = create_component(s.kc, payload)]

\* an update of a component the realm does not hold is answered with an error
DoUpdate(s, payload, fa) ==
    IF s.err THEN s
    ELSE IF Rejected(s, fa) \/ payload.id \notin UsedIds(s.kc)
         THEN [Log(s, Call("update", payload.id, "", payload)) EXCEPT !.err = TRUE]
         ELSE [Log(s, Call("update", payload.id, "", payload))
                  EXCEPT !.kc = update_component(s.kc, payload)]

DoDelete(s, cid, fa) ==
    IF s.err THEN s
    ELSE IF Rejected(s, fa)
         THEN [Log(s, Call("delete", cid, "", EmptyDict)) EXCEPT !.err = TRUE]
         ELSE [Log(s, Call("delete", cid, "", EmptyDict))
                  EXCEPT !.kc = delete_component(s.kc, cid)]

-----------------------------------------------------------------------------
(* main(): results *)

\* result = dict(changed=False, msg='', diff={}, proposed={}, existing={}, end_state={})
InitialResult ==
    [failed |-> FALSE, changed |-> FALSE, msg |-> "", diff |-> EmptyDict,
     proposed |-> EmptyDict, existing |-> EmptyDict, end_state |-> EmptyDict]

\* module.fail_json(msg=...), or an exception nobody catches (msg "exception")
Failure(msg) == [InitialResult EXCEPT !.failed = TRUE, !.msg = msg]

Outcome(res, s) == [result |-> res, calls |-> s.calls, kc |-> s.kc]

-----------------------------------------------------------------------------
(* main(): see if the federation already exists *)

\* a Resolve that settles for the first of several federations of one name
ResolveFirstMatch(store, params) ==
    LET s0 == NewSession(store)
    IN IF ~Has(params, "id")
       THEN LET found == get_components_by_name(store, params.name)
                s1 == Log(s0, Call("get_components_by_name", None, params.name, EmptyDict))
            IN IF found = <<>>
               THEN [msg |-> "", cid |-> None, before_comp |-> EmptyDict, s |-> s1]
               ELSE [msg |-> "", cid |-> found[1].id, before_comp |-> found[1], s |-> s1]
       ELSE [msg |-> "", cid |-> params.id, before_comp |-> get_component(store, params.id),
             s |-> Log(s0, Call("get_component", params.id, "", EmptyDict))]

\* a Resolve that falls back on the name when the id is not found
ResolveIdThenName(store, params) ==
    LET s0 == NewSession(store)
        byName == ResolveFirstMatch(store, DictPop(params, "id"))
    IN IF ~Has(params, "id") THEN byName
       ELSE IF get_component(store, params.id) # EmptyDict
       THEN [msg |-> "", cid |-> params.id, before_comp |-> get_component(store, params.id),
             s |-> Log(s0, Call("get_component", params.id, "", EmptyDict))]
       ELSE [byName EXCEPT
                !.s = [byName.s EXCEPT
                          !.calls = <<Call("get_component", params.id, "", EmptyDict)>> \o @]]

\* cid, before_comp and the lookups made; msg is set when the lookup is fatal
Resolve(store, params) ==
    LET s0 == NewSession(store)
    IN IF ~Has(params, "id")
       THEN LET found == get_components_by_name(store, params.name)
                s1 == Log(s0, Call("get_components_by_name", None, params.name, EmptyDict))
            IN IF Len(found) > 1
               THEN [msg |-> "ambiguous_federation", cid |-> None,
                     before_comp |-> EmptyDict, s |-> s1]
               ELSE IF found = <<>>
                    THEN [msg |-> "", cid |-> None, before_comp |-> EmptyDict, s |-> s1]
                    ELSE [msg |-> "", cid |-> found[1].id, before_comp |-> found[1], s |-> s1]
       ELSE [msg |-> "", cid |-> params.id, before_comp |-> get_component(store, params.id),
             s |-> Log(s0, Call("get_component", params.id, "", EmptyDict))]

\* if the federation exists, attach its mappers sorted by name, then normalise
AttachMappers(r) ==
    IF r.cid # None /\ r.before_comp # EmptyDict
    THEN [r EXCEPT
            !.before_comp = normalize_kc_comp(
                DictSet(r.before_comp, "mappers",
                        SortByName(get_components_by_parent(r.s.kc, r.cid)))),
            !.s = Log(r.s, Call("get_components_by_parent", r.cid, "", EmptyDict))]
    ELSE [r EXCEPT !.before_comp = normalize_kc_comp(r.before_comp)]

-----------------------------------------------------------------------------
(* main(): the proposed changeset *)

\* the parameters that describe the component; 'mappers' is on the exclusion
\* list, so the loop over comp_params never sees the mappers
comp_params(params) == (DOMAIN params) \ NotCompParams

\* for param in comp_params: record the new value when it differs from the old
FederationChangeset(params, before_comp) ==
    LET differing == {k \in comp_params(params) :
                        \/ ~Has(before_comp, camel(k))
                        \/ params[k] # before_comp[camel(k)]}
    IN [ck \in {camel(k) : k \in differing} |->
            params[CHOOSE k \in differing : camel(k) = ck]]

BeforeMappers(before_comp) ==
    IF Has(before_comp, "mappers") THEN before_comp.mappers ELSE <<>>

\* a matching that knows ids only: a mapper given by name is always new
OldMapperByIdOnly(change, cid, before_comp) ==
    LET byId == SelectSeq(BeforeMappers(before_comp), LAMBDA m : m.id = change.id)
    IN IF cid = None THEN EmptyDict
       ELSE IF Has(change, "id")
            THEN IF byId = <<>> THEN EmptyDict ELSE byId[1]
            ELSE EmptyDict

\* the existing mapper a desired mapper is merged onto ({} when there is none)
OldMapper(change, cid, before_comp) ==
    LET byId == SelectSeq(BeforeMappers(before_comp), LAMBDA m : m.id = change.id)
        found == SelectSeq(BeforeMappers(before_comp), LAMBDA m : m.name = change.name)
    IN IF cid = None THEN EmptyDict
       ELSE IF Has(change, "id")
            THEN IF byId = <<>> THEN EmptyDict ELSE byId[1]
            ELSE IF Len(found) = 1 THEN found[1] ELSE EmptyDict

\* a merge that takes the desired mapper alone and forgets the existing one
MergeMapperReplace(old_mapper, change) == change

\* a merge that goes into config and overlays it key by key
MergeMapperDeep(old_mapper, change) ==
    LET top == DictUpdate(old_mapper, change)
    IN IF Has(old_mapper, "config") /\ Has(change, "config")
       THEN [top EXCEPT !.config = DictUpdate(old_mapper.config, change.config)]
       ELSE top

\* new_mapper = old_mapper.copy(); new_mapper.update(change)
MergeMapper(old_mapper, change) == DictUpdate(old_mapper, change)

RECURSIVE MergeMappers(_, _, _, _, _)

\* a loop that asks for an identity of the first desired mapper only
MergeMappersFirstChecked(mappers, i, cid, before_comp, acc) ==
    IF i > Len(mappers) THEN [msg |-> "", mappers |-> acc]
    ELSE LET change == mappers[i]
         IN IF ~Has(change, "id") /\ ~Has(change, "name")
            THEN IF i = 1
                 THEN [msg |-> "mapper_without_identity", mappers |-> acc]
                 ELSE MergeMappers(mappers, i + 1, cid, before_comp, Append(acc, change))
            ELSE IF /\ cid # None
                    /\ ~Has(change, "id")
                    /\ Len(SelectSeq(BeforeMappers(before_comp),
                                     LAMBDA m : m.name = change.name)) > 1
                 THEN [msg |-> "ambiguous_mapper", mappers |-> acc]
                 ELSE MergeMappers(mappers, i + 1, cid, before_comp,
                        Append(acc, MergeMapper(OldMapper(change, cid, before_comp), change)))

\* the loop over the desired mappers: each is validated, matched and merged
MergeMappers(mappers, i, cid, before_comp, acc) ==
    IF i > Len(mappers) THEN [msg |-> "", mappers |-> acc]
    ELSE LET change == mappers[i]
         IN IF ~Has(change, "id") /\ ~Has(change, "name")
            THEN [msg |-> "mapper_without_identity", mappers |-> acc]
            ELSE IF /\ cid # None
                    /\ ~Has(change, "id")
                    /\ Len(SelectSeq(BeforeMappers(before_comp),
                                     LAMBDA m : m.name = change.name)) > 1
                 THEN [msg |-> "ambiguous_mapper", mappers |-> acc]
                 ELSE MergeMappers(mappers, i + 1, cid, before_comp,
                        Append(acc, MergeMapper(OldMapper(change, cid, before_comp), change)))

\* a retention step that adds nothing
KeepNothing(mappers, before_comp) == mappers

\* to keep unspecified existing mappers they are added to the desired list
KeepUnspecified(mappers, before_comp) ==
    LET changeset_mapper_ids ==
            {mappers[i].id : i \in {j \in 1..Len(mappers) : Has(mappers[j], "id")}}
    IN mappers \o SelectSeq(before_comp.mappers, LAMBDA m : m.id \notin changeset_mapper_ids)

\* a mappers step that accepts mappers for every provider
MapperChangesetAnyProvider(params, cid, before_comp, changeset) ==
    IF ~Has(params, "mappers") THEN [msg |-> "", changeset |-> changeset]
    ELSE LET merged == MergeMappers(params.mappers, 1, cid, before_comp, <<>>)
         IN IF merged.msg # "" THEN [msg |-> merged.msg, changeset |-> changeset]
            ELSE IF merged.mappers = <<>>
            THEN [msg |-> "exception", changeset |-> changeset]
            ELSE [msg |-> "",
                  changeset |-> DictSet(changeset, "mappers",
                        IF ~params.remove_unspecified_mappers /\ Has(before_comp, "mappers")
                        THEN KeepUnspecified(SortByName(merged.mappers), before_comp)
                        ELSE SortByName(merged.mappers))]

\* a mappers step that takes a missing mappers list for an empty one
MapperChangesetAbsentIsEmpty(params, cid, before_comp, changeset) ==
    IF Has(params, "mappers")
    THEN MapperChangesetAnyProvider(params, cid, before_comp, changeset)
    ELSE [msg |-> "",
          changeset |-> DictSet(changeset, "mappers",
                IF ~params.remove_unspecified_mappers /\ Has(before_comp, "mappers")
                THEN before_comp.mappers ELSE <<>>)]

\* special handling of the mappers list; msg is set when the run ends here.
\* With an empty list the loop never creates changeset['mappers'] and the
\* sort that follows raises KeyError.
MapperChangeset(params, cid, before_comp, changeset) ==
    IF ~Has(params, "mappers") THEN [msg |-> "", changeset |-> changeset]
    ELSE IF Has(params, "provider_id") /\ params.provider_id \in NoMapperProviders
    THEN [msg |-> "mappers_unsupported_provider", changeset |-> changeset]
    ELSE LET merged == MergeMappers(params.mappers, 1, cid, before_comp, <<>>)
         IN IF merged.msg # "" THEN [msg |-> merged.msg, changeset |-> changeset]
            ELSE IF merged.mappers = <<>>
            THEN [msg |-> "exception", changeset |-> changeset]
            ELSE LET sorted == SortByName(merged.mappers)
                 IN [msg |-> "",
                     changeset |-> DictSet(changeset, "mappers",
                        IF ~params.remove_unspecified_mappers /\ Has(before_comp, "mappers")
                        THEN KeepUnspecified(sorted, before_comp)
                        ELSE sorted)]

-----------------------------------------------------------------------------
(* main(): creation *)

\* create new mappers or update existing default mappers; updated is the set
\* of ids of updated_mappers.  desired_mapper['name'] is read once per default
\* mapper, and raises KeyError for a mapper given by id alone.
RECURSIVE CreateMappers(_, _, _, _, _, _, _)
CreateMappers(s, desired_mappers, i, default_mappers, cid, updated, fa) ==
    IF i > Len(desired_mappers) \/ s.err THEN [msg |-> "", s |-> s, updated |-> updated]
    ELSE LET desired_mapper == desired_mappers[i]
         IN IF default_mappers # <<>> /\ ~Has(desired_mapper, "name")
            THEN [msg |-> "exception", s |-> s, updated |-> updated]
            ELSE LET found == SelectSeq(default_mappers,
                                        LAMBDA m : m.name = desired_mapper.name)
                     old_mapper == IF Len(found) = 1 THEN found[1] ELSE EmptyDict
                     new_mapper == MergeMapper(old_mapper, desired_mapper)
                     with_parent == IF Has(new_mapper, "parentId") THEN new_mapper
                                    ELSE DictSet(new_mapper, "parentId", cid)
                 IN IF Len(found) > 1
                    THEN [msg |-> "ambiguous_mapper", s |-> s, updated |-> updated]
                    ELSE IF Has(new_mapper, "id")
                    THEN CreateMappers(DoUpdate(s, new_mapper, fa), desired_mappers, i + 1,
                                       default_mappers, cid,
                                       updated \cup {new_mapper.id}, fa)
                    ELSE CreateMappers(DoCreate(s, with_parent, fa), desired_mappers, i + 1,
                                       default_mappers, cid,
                                       updated \cup {CreatedId(s.kc, with_parent)}, fa)

RECURSIVE DeleteDefaults(_, _, _, _, _)

\* a cleanup that deletes every default mapper, updated or not
DeleteDefaultsAll(s, default_mappers, i, updated, fa) ==
    IF i > Len(default_mappers) THEN s
    ELSE DeleteDefaults(DoDelete(s, default_mappers[i].id, fa),
                        default_mappers, i + 1, {}, fa)

\* we remove all unwanted default mappers, going by the ids of the updated ones
DeleteDefaults(s, default_mappers, i, updated, fa) ==
    IF i > Len(default_mappers) THEN s
    ELSE DeleteDefaults(
            IF default_mappers[i].id \notin updated
            THEN DoDelete(s, default_mappers[i].id, fa) ELSE s,
            default_mappers, i + 1, updated, fa)

CreatePath(s0, mod, res, desired_comp, fa) ==
    LET desired_mappers == IF Has(desired_comp, "mappers") THEN desired_comp.mappers ELSE <<>>
        payload == DictPop(desired_comp, "mappers")
        s1 == DoCreate(s0, payload, fa)
        cid == CreatedId(s0.kc, payload)
        after_comp == get_component(s1.kc, cid)
        s2 == Log(s1, Call("get_components_by_parent", cid, "", EmptyDict))
        default_mappers == get_components_by_parent(s1.kc, cid)
        loop == CreateMappers(s2, desired_mappers, 1, default_mappers, cid, {}, fa)
        s3 == IF mod.params.remove_unspecified_mappers
              THEN DeleteDefaults(loop.s, default_mappers, 1, loop.updated, fa)
              ELSE loop.s
        s4 == Log(s3, Call("get_components_by_parent", cid, "", EmptyDict))
        final == normalize_kc_comp(
                    DictSet(after_comp, "mappers", get_components_by_parent(s3.kc, cid)))
    IN IF s1.err THEN Outcome(Failure("remote_error"), s1)
       ELSE IF loop.s.err THEN Outcome(Failure("remote_error"), loop.s)
       ELSE IF loop.msg # "" THEN Outcome(Failure(loop.msg), loop.s)
       ELSE IF s3.err THEN Outcome(Failure("remote_error"), s3)
       ELSE Outcome([res EXCEPT !.diff = IF mod.diff
                                           THEN [before |-> "", after |-> sanitize(final)]
                                           ELSE EmptyDict,
                                !.end_state = sanitize(final),
                                !.msg = "created"], s4)

-----------------------------------------------------------------------------
(* main(): update *)

\* remove unwanted existing mappers that will not be updated
RECURSIVE DeleteUnwanted(_, _, _, _, _)
DeleteUnwanted(s, before_mappers, i, desired_mappers, fa) ==
    IF i > Len(before_mappers) THEN s
    ELSE LET desired_ids == {desired_mappers[j].id :
                                j \in {k \in 1..Len(desired_mappers) :
                                          Has(desired_mappers[k], "id")}}
         IN DeleteUnwanted(
                IF before_mappers[i].id \notin desired_ids
                THEN DoDelete(s, before_mappers[i].id, fa) ELSE s,
                before_mappers, i + 1, desired_mappers, fa)

RECURSIVE PushMappers(_, _, _, _, _, _)

\* a push that sends every desired mapper, changed or not
PushMappersAll(s, desired_mappers, i, before_mappers, cid, fa) ==
    IF i > Len(desired_mappers) THEN s
    ELSE LET mapper == desired_mappers[i]
             with_parent == IF Has(mapper, "parentId") THEN mapper
                            ELSE DictSet(mapper, "parentId", cid)
         IN PushMappers(
                IF Has(mapper, "id") THEN DoUpdate(s, mapper, fa)
                ELSE DoCreate(s, with_parent, fa),
                desired_mappers, i + 1, before_mappers, cid, fa)

\* update the desired mappers that carry an id, create the others; a mapper
\* identical to an existing one is skipped
PushMappers(s, desired_mappers, i, before_mappers, cid, fa) ==
    IF i > Len(desired_mappers) THEN s
    ELSE LET mapper == desired_mappers[i]
             with_parent == IF Has(mapper, "parentId") THEN mapper
                            ELSE DictSet(mapper, "parentId", cid)
         IN PushMappers(
                IF InList(mapper, before_mappers) THEN s
                ELSE IF Has(mapper, "id") THEN DoUpdate(s, mapper, fa)
                ELSE DoCreate(s, with_parent, fa),
                desired_mappers, i + 1, before_mappers, cid, fa)

\* exclude bindCredential when checking whether an update is required
WithoutBindCredential(comp) ==
    IF Has(comp, "config")
    THEN [comp EXCEPT !.config = DictPop(comp.config, "bindCredential")]
    ELSE comp

\* a comparison that takes the secret into account whatever the mode
NoChangesSecretCompared(mod, desired_comp, before_comp) == desired_comp = before_comp

\* a comparison that leaves the secret out whatever the mode
NoChangesSecretIgnored(mod, desired_comp, before_comp) ==
    WithoutBindCredential(desired_comp) = WithoutBindCredential(before_comp)

NoChanges(mod, desired_comp, before_comp) ==
    IF mod.params.bind_credential_update_mode = "only_indirect"
    THEN WithoutBindCredential(desired_comp) = WithoutBindCredential(before_comp)
    ELSE desired_comp = before_comp

\* a payload that never carries the secret
UpdatePayloadNoSecret(desired_comp) ==
    WithoutBindCredential(DictPop(desired_comp, "mappers"))

\* the federation as update_component receives it: the mappers are held aside
UpdatePayload(desired_comp) == DictPop(desired_comp, "mappers")

\* an update that reports changed=true because it had something to push
UpdatePathChangesetDecides(s0, mod, res, cid, desired_comp, before_comp, fa) ==
    LET desired_mappers == IF Has(desired_comp, "mappers") THEN desired_comp.mappers ELSE <<>>
        s1 == DoUpdate(s0, UpdatePayload(desired_comp), fa)
        s2 == DeleteUnwanted(s1, BeforeMappers(before_comp), 1, desired_mappers, fa)
        s3 == PushMappers(s2, desired_mappers, 1, BeforeMappers(before_comp),
                          desired_comp.id, fa)
        s4 == Log(Log(s3, Call("get_component", cid, "", EmptyDict)),
                  Call("get_components_by_parent", cid, "", EmptyDict))
        after_comp == normalize_kc_comp(
                        DictSet(get_component(s3.kc, cid), "mappers",
                                SortByName(get_components_by_parent(s3.kc, cid))))
        with_diff == [res EXCEPT !.changed = TRUE,
                                 !.diff = IF mod.diff
                                          THEN [before |-> sanitize(before_comp),
                                                after |-> sanitize(desired_comp)]
                                          ELSE EmptyDict]
    IN IF NoChanges(mod, desired_comp, before_comp)
       THEN Outcome([res EXCEPT !.changed = FALSE,
                                !.end_state = sanitize(desired_comp),
                                !.msg = "no_changes"], s0)
       ELSE IF mod.check_mode THEN Outcome(with_diff, s0)
       ELSE IF s3.err THEN Outcome(Failure("remote_error"), s3)
       ELSE Outcome([with_diff EXCEPT
                        !.end_state = sanitize(after_comp),
                        !.diff = IF mod.diff
                                 THEN [before |-> sanitize(before_comp),
                                       after |-> sanitize(after_comp)]
                                 ELSE EmptyDict,
                        !.msg = "updated"], s4)

\* an update that reconciles the mappers before it pushes the federation
UpdatePathMappersFirst(s0, mod, res, cid, desired_comp, before_comp, fa) ==
    LET desired_mappers == IF Has(desired_comp, "mappers") THEN desired_comp.mappers ELSE <<>>
        s1 == DeleteUnwanted(s0, BeforeMappers(before_comp), 1, desired_mappers, fa)
        s2 == PushMappers(s1, desired_mappers, 1, BeforeMappers(before_comp),
                          desired_comp.id, fa)
        s3 == DoUpdate(s2, UpdatePayload(desired_comp), fa)
        s4 == Log(Log(s3, Call("get_component", cid, "", EmptyDict)),
                  Call("get_components_by_parent", cid, "", EmptyDict))
        after_comp == normalize_kc_comp(
                        DictSet(get_component(s3.kc, cid), "mappers",
                                SortByName(get_components_by_parent(s3.kc, cid))))
        with_diff == [res EXCEPT !.changed = TRUE,
                                 !.diff = IF mod.diff
                                          THEN [before |-> sanitize(before_comp),
                                                after |-> sanitize(desired_comp)]
                                          ELSE EmptyDict]
    IN IF NoChanges(mod, desired_comp, before_comp)
       THEN Outcome([res EXCEPT !.changed = FALSE,
                                !.end_state = sanitize(desired_comp),
                                !.msg = "no_changes"], s0)
       ELSE IF mod.check_mode THEN Outcome(with_diff, s0)
       ELSE IF s3.err THEN Outcome(Failure("remote_error"), s3)
       ELSE Outcome([with_diff EXCEPT
                        !.end_state = sanitize(after_comp),
                        !.diff = IF mod.diff
                                 THEN [before |-> sanitize(before_comp),
                                       after |-> sanitize(after_comp)]
                                 ELSE EmptyDict,
                        !.changed = sanitize(before_comp) # sanitize(after_comp),
                        !.msg = "updated"], s4)

UpdatePath(s0, mod, res, cid, desired_comp, before_comp, fa) ==
    LET desired_mappers == IF Has(desired_comp, "mappers") THEN desired_comp.mappers ELSE <<>>
        s1 == DoUpdate(s0, UpdatePayload(desired_comp), fa)
        s2 == DeleteUnwanted(s1, BeforeMappers(before_comp), 1, desired_mappers, fa)
        s3 == PushMappers(s2, desired_mappers, 1, BeforeMappers(before_comp),
                          desired_comp.id, fa)
        s4 == Log(Log(s3, Call("get_component", cid, "", EmptyDict)),
                  Call("get_components_by_parent", cid, "", EmptyDict))
        after_comp == normalize_kc_comp(
                        DictSet(get_component(s3.kc, cid), "mappers",
                                SortByName(get_components_by_parent(s3.kc, cid))))
        with_diff == [res EXCEPT !.changed = TRUE,
                                 !.diff = IF mod.diff
                                          THEN [before |-> sanitize(before_comp),
                                                after |-> sanitize(desired_comp)]
                                          ELSE EmptyDict]
    IN IF NoChanges(mod, desired_comp, before_comp)
       THEN Outcome([res EXCEPT !.changed = FALSE,
                                !.end_state = sanitize(desired_comp),
                                !.msg = "no_changes"], s0)
       ELSE IF mod.check_mode THEN Outcome(with_diff, s0)
       ELSE IF s3.err THEN Outcome(Failure("remote_error"), s3)
       ELSE Outcome([with_diff EXCEPT
                        !.end_state = sanitize(after_comp),
                        !.diff = IF mod.diff
                                 THEN [before |-> sanitize(before_comp),
                                       after |-> sanitize(after_comp)]
                                 ELSE EmptyDict,
                        !.changed = sanitize(before_comp) # sanitize(after_comp),
                        !.msg = "updated"], s4)

-----------------------------------------------------------------------------
(* main(): deletion *)

\* a deletion that does not look at check mode
DeletePathUnchecked(s0, mod, res, cid, before_comp, fa) ==
    LET s1 == DoDelete(s0, cid, fa)
    IN IF s1.err THEN Outcome(Failure("remote_error"), s1)
       ELSE Outcome([res EXCEPT !.changed = TRUE,
                                !.diff = IF mod.diff
                                         THEN [before |-> sanitize(before_comp), after |-> ""]
                                         ELSE EmptyDict,
                                !.end_state = EmptyDict, !.msg = "deleted"], s1)

\* a deletion that removes the mappers itself before the federation
DeletePathMappersFirst(s0, mod, res, cid, before_comp, fa) ==
    LET with_diff == [res EXCEPT !.changed = TRUE,
                                 !.diff = IF mod.diff
                                          THEN [before |-> sanitize(before_comp), after |-> ""]
                                          ELSE EmptyDict]
        s1 == DoDelete(DeleteUnwanted(s0, BeforeMappers(before_comp), 1, <<>>, fa), cid, fa)
    IN IF mod.check_mode THEN Outcome(with_diff, s0)
       ELSE IF s1.err THEN Outcome(Failure("remote_error"), s1)
       ELSE Outcome([with_diff EXCEPT !.end_state = EmptyDict, !.msg = "deleted"], s1)

DeletePath(s0, mod, res, cid, before_comp, fa) ==
    LET with_diff == [res EXCEPT !.changed = TRUE,
                                 !.diff = IF mod.diff
                                          THEN [before |-> sanitize(before_comp), after |-> ""]
                                          ELSE EmptyDict]
        s1 == DoDelete(s0, cid, fa)
    IN IF mod.check_mode THEN Outcome(with_diff, s0)
       ELSE IF s1.err THEN Outcome(Failure("remote_error"), s1)
       ELSE Outcome([with_diff EXCEPT !.end_state = EmptyDict, !.msg = "deleted"], s1)

-----------------------------------------------------------------------------
(* main() *)

\* a main() that sends the delete whether or not the federation was found
mainAbsentDeletes(store, mod, fa) ==
    LET params == EncodeParams(mod.params)
        r == AttachMappers(Resolve(store, params))
        cid == r.cid
        before_comp == r.before_comp
        mc == MapperChangeset(params, cid, before_comp,
                              FederationChangeset(params, before_comp))
        changeset == mc.changeset
        desired_comp == DictUpdate(before_comp, changeset)
        res == [InitialResult EXCEPT !.proposed = sanitize(changeset),
                                     !.existing = sanitize(before_comp)]
    IN IF r.msg # "" THEN Outcome(Failure(r.msg), r.s)
       ELSE IF mc.msg # "" THEN Outcome(Failure(mc.msg), r.s)
       ELSE IF before_comp = EmptyDict
       THEN IF params.state = "absent"
            THEN DeletePath(r.s, mod, res, cid, before_comp, fa)
            ELSE IF mod.check_mode
            THEN Outcome([res EXCEPT !.changed = TRUE,
                                     !.diff = IF mod.diff
                                              THEN [before |-> "", after |-> sanitize(desired_comp)]
                                              ELSE EmptyDict], r.s)
            ELSE CreatePath(r.s, mod, [res EXCEPT !.changed = TRUE], desired_comp, fa)
       ELSE IF params.state = "present"
            THEN UpdatePath(r.s, mod, res, cid, desired_comp, before_comp, fa)
            ELSE DeletePath(r.s, mod, res, cid, before_comp, fa)

\* one run of the module against the store: its result, the calls it issued
\* and the store it leaves
main(store, mod, fa) ==
    LET params == EncodeParams(mod.params)
        r == AttachMappers(Resolve(store, params))
        cid == r.cid
        before_comp == r.before_comp
        mc == MapperChangeset(params, cid, before_comp,
                              FederationChangeset(params, before_comp))
        changeset == mc.changeset
        desired_comp == DictUpdate(before_comp, changeset)
        res == [InitialResult EXCEPT !.proposed = sanitize(changeset),
                                     !.existing = sanitize(before_comp)]
    IN IF r.msg # "" THEN Outcome(Failure(r.msg), r.s)
       ELSE IF mc.msg # "" THEN Outcome(Failure(mc.msg), r.s)
       ELSE IF before_comp = EmptyDict
       THEN IF params.state = "absent"
            THEN Outcome([res EXCEPT !.diff = IF mod.diff
                                               THEN [before |-> "", after |-> ""]
                                               ELSE EmptyDict,
                                     !.msg = "does_not_exist"], r.s)
            ELSE IF mod.check_mode
            THEN Outcome([res EXCEPT !.changed = TRUE,
                                     !.diff = IF mod.diff
                                              THEN [before |-> "", after |-> sanitize(desired_comp)]
                                              ELSE EmptyDict], r.s)
            ELSE CreatePath(r.s, mod, [res EXCEPT !.changed = TRUE], desired_comp, fa)
       ELSE IF params.state = "present"
            THEN UpdatePath(r.s, mod, res, cid, desired_comp, before_comp, fa)
            ELSE DeletePath(r.s, mod, res, cid, before_comp, fa)

-----------------------------------------------------------------------------
(* The invocations the model draws from *)

StrV(s) == [t |-> "str", v |-> s]
IntV(s) == [t |-> "int", v |-> s]
BoolV(s) == [t |-> "bool", v |-> s]
NoneValue == [t |-> "none", v |-> "None"]

\* config as the argument parser hands it over: every option present, None when unset
FedConfigs ==
    {[krbPrincipalAttribute |-> k, priority |-> IntV(pr), bindCredential |-> b,
      enabled |-> BoolV("True")] :
        k \in {NoneValue, StrV("")}, pr \in {"0", "1"},
        b \in {NoneValue, StrV("s1"), StrV("s2")}}

PlainConfig ==
    [krbPrincipalAttribute |-> StrV(""), priority |-> IntV("0"),
     bindCredential |-> NoneValue, enabled |-> BoolV("True")]

\* the desired mappers: by name, by id, with and without config, without identity
DesiredMappers ==
    {[name |-> "a", providerType |-> MapperType],
     [name |-> "a", providerType |-> MapperType,
      config |-> [x |-> IntV("9"), y |-> NoneValue]],
     [name |-> "b", providerId |-> "p", providerType |-> MapperType,
      config |-> [x |-> StrV("1")]],
     [providerType |-> MapperType],
     [id |-> 2, providerType |-> MapperType, config |-> [x |-> StrV("9")]]}

RECURSIVE ListsUpTo(_, _)
ListsUpTo(S, n) ==
    IF n = 0 THEN {<<>>}
    ELSE LET shorter == ListsUpTo(S, n - 1)
         IN shorter \cup {Append(l, x) : l \in {m \in shorter : Len(m) = n - 1}, x \in S}

MapperLists == ListsUpTo(DesiredMappers, MaxMappers)

BaseParams ==
    [state |-> "present", realm |-> "master", name |-> "f", provider_id |-> "ldap",
     provider_type |-> FedType, remove_unspecified_mappers |-> TRUE,
     bind_credential_update_mode |-> "always"]

With(params, k, v) == DictSet(params, k, v)

\* federation-level runs: the config and the secret policy vary, no mappers given
FederationRuns ==
    {[params |-> With([BaseParams EXCEPT !.bind_credential_update_mode = m,
                                         !.remove_unspecified_mappers = rm], "config", c),
      check_mode |-> chk, diff |-> TRUE] :
        m \in {"always", "only_indirect"}, rm \in BOOLEAN, c \in FedConfigs, chk \in BOOLEAN}

\* runs without config: creation of either kind of federation, and removal
PlainRuns ==
    {[params |-> [BaseParams EXCEPT !.provider_id = pid, !.state = st],
      check_mode |-> chk, diff |-> TRUE] :
        pid \in {"ldap", "kerberos"}, st \in {"present", "absent"}, chk \in BOOLEAN}

\* runs that address the federation by id
IdRuns ==
    {[params |-> With(With([BaseParams EXCEPT !.state = st], "id", i), "config", PlainConfig),
      check_mode |-> chk, diff |-> d] :
        st \in {"present", "absent"}, i \in 1..2, chk \in BOOLEAN, d \in BOOLEAN}

\* runs that give a mappers list
MapperRuns ==
    {[params |-> With(With([BaseParams EXCEPT !.remove_unspecified_mappers = rm],
                           "config", PlainConfig), "mappers", ms),
      check_mode |-> chk, diff |-> TRUE] :
        rm \in BOOLEAN, ms \in MapperLists, chk \in BOOLEAN}
    \cup
    {[params |-> With([BaseParams EXCEPT !.provider_id = pid], "mappers", ms),
      check_mode |-> FALSE, diff |-> TRUE] :
        pid \in NoMapperProviders, ms \in ListsUpTo(DesiredMappers, 1)}

\* desired mappers named b, under the federation or under component 5
ParentedMappers ==
    {[name |-> "b", providerType |-> MapperType],
     [name |-> "b", providerType |-> MapperType, parentId |-> 5]}

\* runs whose mappers name their parent themselves, and runs that address the
\* federation by the id those mappers name
ParentRuns ==
    {[params |-> With([BaseParams EXCEPT !.remove_unspecified_mappers = rm], "mappers", ms),
      check_mode |-> FALSE, diff |-> TRUE] :
        rm \in BOOLEAN, ms \in ListsUpTo(ParentedMappers, MaxMappers) \ {<<>>}}
    \cup
    {[params |-> With(With(BaseParams, "id", 5), "mappers", ms),
      check_mode |-> chk, diff |-> TRUE] :
        ms \in ListsUpTo(ParentedMappers, 1) \ {<<>>}, chk \in BOOLEAN}
    \cup
    {[params |-> [BaseParams EXCEPT !.state = "absent"], check_mode |-> FALSE, diff |-> TRUE]}

\* desired mappers of distinct names: one that Keycloak provisions, one new
NamedMappers ==
    {[name |-> "a", providerType |-> MapperType,
      config |-> [x |-> IntV("9"), y |-> NoneValue]],
     [name |-> "b", providerId |-> "p", providerType |-> MapperType,
      config |-> [x |-> StrV("1")]]}

\* real state=present runs, with and without a mappers list, that a failure
\* of the realm may interrupt
FailRuns ==
    {[params |-> [BaseParams EXCEPT !.remove_unspecified_mappers = rm, !.provider_id = pid],
      check_mode |-> FALSE, diff |-> TRUE] :
        rm \in BOOLEAN, pid \in {"ldap", "kerberos"}}
    \cup
    {[params |-> With([BaseParams EXCEPT !.remove_unspecified_mappers = rm], "mappers", ms),
      check_mode |-> FALSE, diff |-> TRUE] :
        rm \in BOOLEAN, ms \in ListsUpTo(NamedMappers, MaxMappers) \ {<<>>}}
    \cup
    {[params |-> [BaseParams EXCEPT !.state = "absent"], check_mode |-> FALSE, diff |-> TRUE]}

\* desired mappers given by the ids the realm gave to the first two mappers
\* created under the first federation
IdMappers ==
    {[id |-> 3, providerType |-> MapperType],
     [id |-> 4, providerType |-> MapperType]}

\* runs that create mappers of one name, and runs that tell them apart by id
OrderRuns ==
    {[params |-> With([BaseParams EXCEPT !.remove_unspecified_mappers = rm], "mappers", ms),
      check_mode |-> chk, diff |-> TRUE] :
        rm \in BOOLEAN, chk \in BOOLEAN,
        ms \in (ListsUpTo(IdMappers, MaxMappers) \ {<<>>})
                 \cup {<<[name |-> "b", providerType |-> MapperType],
                          [name |-> "b", providerType |-> MapperType]>>}}
    \cup
    {[params |-> [BaseParams EXCEPT !.state = "absent"], check_mode |-> FALSE, diff |-> TRUE]}

\* config values of every type the argument parser hands over
CodecValues ==
    {NoneValue, StrV("s1"), StrV("True"), BoolV("True"), BoolV("False"), IntV("1")}

\* runs whose federation config and mapper config hold values of every type
CodecRuns ==
    {[params |-> With(With(BaseParams, "config", [bindCredential |-> b, priority |-> v]),
                      "mappers",
                      <<[name |-> "a", providerType |-> MapperType,
                         config |-> [x |-> w, bindCredential |-> StrV("s2")]]>>),
      check_mode |-> chk, diff |-> TRUE] :
        b \in {NoneValue, StrV("s1")}, v \in CodecValues, w \in CodecValues,
        chk \in BOOLEAN}
    \cup
    {[params |-> [BaseParams EXCEPT !.state = "absent"], check_mode |-> FALSE, diff |-> TRUE]}

\* the invocations of the specifications
Runs == MapperRuns \cup PlainRuns

FedRuns == FederationRuns \cup PlainRuns \cup IdRuns

NoModule == [params |-> EmptyDict, check_mode |-> FALSE, diff |-> FALSE]

\* what is kept of the run before a repetition; pre is the realm it started from
NoRun == [ran |-> FALSE, msg |-> "", changed |-> FALSE, failed |-> FALSE, pre |-> <<>>]

\* ids the run may ask the realm for: the federation, its default mapper and
\* one per desired mapper
IdsNeeded(store, mod) ==
    LET r == Resolve(store, mod.params)
        n == IF Has(mod.params, "mappers") THEN Len(mod.params.mappers) ELSE 0
    IN IF r.before_comp = EmptyDict THEN n + 2 ELSE n

-----------------------------------------------------------------------------
(* The state machine: the module is invoked, main() runs, the process exits; *)
(* a playbook may run the same task again; the realm syncs in between.      *)

TypeOK ==
    /\ pc \in {"idle", "running", "done"}
    /\ failAt \in 0..(2 * MaxMappers + 3)

Init ==
    /\ kc = <<>>
    /\ pc = "idle"
    /\ module = NoModule
    /\ failAt = 0
    /\ result = InitialResult
    /\ calls = <<>>
    /\ pre = <<>>
    /\ prev = NoRun

\* the module is started with one of the invocations; the realm has ids to give
Invoke(RunSet) ==
    /\ pc = "idle"
    /\ \E mod \in RunSet :
          /\ Cardinality(FreeIds(kc)) >= IdsNeeded(kc, mod)
          /\ module' = mod
    /\ pc' = "running"
    /\ failAt' = 0
    /\ UNCHANGED <<kc, result, calls, pre, prev>>

\* the most create, update and delete calls one run issues: the federation,
\* one per desired mapper, one per mapper Keycloak provisioned
CallsOfARun == MaxMappers + 2

\* the module is started against a realm that will answer one of the run's
\* create, update or delete calls with an error
InvokeFailing(RunSet) ==
    /\ pc = "idle"
    /\ \E mod \in RunSet :
          /\ Cardinality(FreeIds(kc)) >= IdsNeeded(kc, mod)
          /\ module' = mod
    /\ pc' = "running"
    /\ failAt' \in 1..CallsOfARun
    /\ UNCHANGED <<kc, result, calls, pre, prev>>

\* main() runs to its exit against a realm that rejects call number failAt
Main ==
    /\ pc = "running"
    /\ LET o == main(kc, module, failAt)
       IN /\ kc' = o.kc
          /\ result' = o.result
          /\ calls' = o.calls
    /\ pre' = kc
    /\ pc' = "done"
    /\ UNCHANGED <<module, failAt, prev>>

\* the same task is run again right away
Reinvoke ==
    /\ pc = "done"
    /\ Cardinality(FreeIds(kc)) >= IdsNeeded(kc, module)
    /\ prev' = [ran |-> TRUE, msg |-> result.msg, changed |-> result.changed,
                failed |-> result.failed, pre |-> pre]
    /\ pc' = "running"
    /\ failAt' = 0
    /\ UNCHANGED <<kc, module, result, calls, pre>>

\* the process is gone; only the realm keeps state
Exit ==
    /\ pc = "done"
    /\ pc' = "idle"
    /\ module' = NoModule
    /\ failAt' = 0
    /\ result' = InitialResult
    /\ calls' = <<>>
    /\ pre' = <<>>
    /\ prev' = NoRun
    /\ UNCHANGED kc

SyncStamp(n) ==
    CASE n = 1 -> "t1"
      [] n = 2 -> "t2"
      [] OTHER -> "t3"

\* Keycloak's periodic sync stamps an ldap federation with the time of the sync
RemoteSync ==
    /\ pc = "idle"
    /\ \E i \in 1..Len(kc), n \in 1..MaxSync :
          /\ HasDefaultMappers(kc[i])
          /\ kc' = [kc EXCEPT ![i].config = DictSet(@, "lastSync", <<SyncStamp(n)>>)]
    /\ UNCHANGED <<pc, module, failAt, result, calls, pre, prev>>

\* runs that reconcile mappers
Next == Invoke(Runs) \/ Main \/ Reinvoke \/ Exit \/ RemoteSync

Spec == Init /\ [][Next]_vars

\* runs that reconcile the federation's own fields
NextFed == Invoke(FedRuns) \/ Main \/ Reinvoke \/ Exit \/ RemoteSync

SpecFed == Init /\ [][NextFed]_vars

\* runs whose mappers say where they belong
NextParent == Invoke(ParentRuns) \/ Main \/ Reinvoke \/ Exit \/ RemoteSync

SpecParent == Init /\ [][NextParent]_vars

\* runs that the realm may interrupt with an error, and their repetition
NextFail ==
    Invoke(FailRuns) \/ InvokeFailing(FailRuns) \/ Main \/ Reinvoke \/ Exit \/ RemoteSync

SpecFail == Init /\ [][NextFail]_vars

\* runs that list mappers of one name in one order or another
NextOrder == Invoke(OrderRuns) \/ Main \/ Reinvoke \/ Exit \/ RemoteSync

SpecOrder == Init /\ [][NextOrder]_vars

\* runs that encode config values of every type
NextCodec == Invoke(CodecRuns) \/ Main \/ Reinvoke \/ Exit \/ RemoteSync

SpecCodec == Init /\ [][NextCodec]_vars

-----------------------------------------------------------------------------
(* Vocabulary of the properties: the run that has just ended *)

Done == pc = "done"

\* module.params as main() sees them after the codec
RunParams == EncodeParams(module.params)

\* the federation the run found at its start, normalised, with its mappers
\* ({} when there was none)
Existing == AttachMappers(Resolve(pre, RunParams)).before_comp

\* the federation as a lookup after the run returns it, normalised
Refetched ==
    IF get_component(kc, Existing.id) = EmptyDict THEN EmptyDict
    ELSE normalize_kc_comp(
            DictSet(get_component(kc, Existing.id), "mappers",
                    SortByName(get_components_by_parent(kc, Existing.id))))

NoMutation == Mutations(calls) = <<>>

Issued(op, id) == \E i \in 1..Len(calls) : calls[i].op = op /\ calls[i].id = id

OnExisting == Done /\ Existing # EmptyDict

PresentOnExisting == OnExisting /\ RunParams.state = "present"

OnlyIndirect == RunParams.bind_credential_update_mode = "only_indirect"

\* every federation-level field the caller supplied has the existing value;
\* with skipSecret, config is compared without bindCredential
FieldsAgree(P, E, skipSecret) ==
    \A k \in comp_params(P) :
        /\ Has(E, camel(k))
        /\ IF k = "config" /\ skipSecret
           THEN DictPop(P.config, "bindCredential") = DictPop(E.config, "bindCredential")
           ELSE P[k] = E[camel(k)]

\* desired mapper d names existing mapper e, without ambiguity, and every
\* field d supplies has e's value
MapperAgrees(d, e, E) ==
    /\ \/ Has(d, "id") /\ d.id = e.id
       \/ /\ ~Has(d, "id") /\ Has(d, "name") /\ d.name = e.name
          /\ Len(SelectSeq(E.mappers, LAMBDA m : m.name = d.name)) = 1
    /\ \A k \in DOMAIN d : Has(e, k) /\ e[k] = d[k]

\* the desired mappers, put in name order, are the existing mappers one for one
MappersAgree(P, E) ==
    \/ ~Has(P, "mappers")
    \/ /\ Len(P.mappers) = Len(E.mappers)
       /\ \A i \in 1..Len(E.mappers) : MapperAgrees(SortByName(P.mappers)[i], E.mappers[i], E)

\* existing mapper e is mentioned by a desired mapper, by id or by name
Mentioned(e, P) ==
    /\ Has(P, "mappers")
    /\ \E i \in 1..Len(P.mappers) :
          \/ Has(P.mappers[i], "id") /\ P.mappers[i].id = e.id
          \/ Has(P.mappers[i], "name") /\ P.mappers[i].name = e.name

\* the desired mappers pass validation: the provider takes mappers, every
\* mapper has an identity and a mapper given by name names at most one mapper
ValidMappers(P, E) ==
    /\ ~(Has(P, "provider_id") /\ P.provider_id \in NoMapperProviders)
    /\ \A i \in 1..Len(P.mappers) :
          /\ Has(P.mappers[i], "id") \/ Has(P.mappers[i], "name")
          /\ ~Has(P.mappers[i], "id") =>
                Len(SelectSeq(BeforeMappers(E),
                              LAMBDA m : m.name = P.mappers[i].name)) <= 1

\* the desired mappers that carry a name carry pairwise distinct names
DistinctNames(mappers) ==
    \A i, j \in 1..Len(mappers) :
        (i # j /\ Has(mappers[i], "name") /\ Has(mappers[j], "name"))
            => mappers[i].name # mappers[j].name

\* the run sent the federation an update whose config holds the desired secret
SecretPushed ==
    \E i \in 1..Len(calls) :
        /\ calls[i].op = "update"
        /\ calls[i].id = Existing.id
        /\ Has(calls[i].comp, "config")
        /\ Has(calls[i].comp.config, "bindCredential")
        /\ calls[i].comp.config.bindCredential = RunParams.config.bindCredential

SetsSecret == Has(RunParams, "config") /\ Has(RunParams.config, "bindCredential")

ValidationMsgs ==
    {"ambiguous_federation", "ambiguous_mapper", "mappers_unsupported_provider",
     "mapper_without_identity"}

Lookups == {"get_components_by_name", "get_component", "get_components_by_parent"}

-----------------------------------------------------------------------------
(* C1 *)

\* the desired state of a state=present run is already the existing one:
\* fields, under the secret policy of the run, and mappers
AlreadyDesired ==
    /\ PresentOnExisting
    /\ FieldsAgree(RunParams, Existing, OnlyIndirect)
    /\ MappersAgree(RunParams, Existing)
    /\ Has(RunParams, "mappers") => ValidMappers(RunParams, Existing)

\* C1: a state=present run against a federation whose normalised state
\* (fields under the active bind_credential_update_mode, and mappers) already
\* equals the desired state is a no-op: changed=false, end_state equal to the
\* reported existing object, and no create, update or delete call.
C1_Idempotence ==
    AlreadyDesired =>
        /\ ~result.failed
        /\ ~result.changed
        /\ result.end_state = result.existing
        /\ NoMutation

-----------------------------------------------------------------------------
(* C2 *)

\* C2 as stated: the run that follows at once a run that created the
\* federation, with the same desired spec, reports changed=false.
C2_CreateThenNoOp ==
    (Done /\ prev.ran /\ prev.msg = "created") => (~result.failed /\ ~result.changed)

\* C2 amended: the same, for desired mappers of pairwise distinct names.
C2_CreateThenNoOpDistinctNames ==
    (/\ Done /\ prev.ran /\ prev.msg = "created"
     /\ Has(RunParams, "mappers") => DistinctNames(RunParams.mappers))
        => (~result.failed /\ ~result.changed)

\* a second run right after the creation of a federation with two desired
\* mappers, one of which Keycloak had provisioned by itself
C2_Witness ==
    /\ Done /\ prev.ran /\ prev.msg = "created"
    /\ Has(RunParams, "mappers") /\ Len(RunParams.mappers) = 2
    /\ DistinctNames(RunParams.mappers)
    /\ \E i \in 1..2 : Has(RunParams.mappers[i], "name") /\ RunParams.mappers[i].name = "a"
    /\ ~result.failed /\ ~result.changed

-----------------------------------------------------------------------------
(* C3 *)

AmbiguousName ==
    /\ Done
    /\ ~Has(RunParams, "id")
    /\ Len(get_components_by_name(pre, RunParams.name)) > 1

\* C3: with no id given and more than one federation of the given name, the
\* run fails with the ambiguity error and issues no create, update or delete
\* call; none of the matches is picked.
C3_AmbiguousFederation ==
    AmbiguousName =>
        /\ result.failed
        /\ result.msg = "ambiguous_federation"
        /\ NoMutation
        /\ kc = pre

C3_Witness == AmbiguousName /\ result.failed /\ RunParams.state = "present"

-----------------------------------------------------------------------------
(* C4 *)

Unmentioned(i) == ~Mentioned(Existing.mappers[i], RunParams)

\* C4: on the update path with remove_unspecified_mappers=false, an existing
\* mapper that no desired mapper matches by id or by name gets no delete call
\* and no update call, and is in the realm after the run as it was before.
C4_UnspecifiedRetained ==
    (PresentOnExisting /\ ~RunParams.remove_unspecified_mappers) =>
        \A i \in 1..Len(Existing.mappers) :
            Unmentioned(i) =>
                /\ ~Issued("delete", Existing.mappers[i].id)
                /\ ~Issued("update", Existing.mappers[i].id)
                /\ InList(Existing.mappers[i], kc)

\* an update that pushed calls while an existing mapper went unmentioned
C4_Witness ==
    /\ PresentOnExisting /\ ~RunParams.remove_unspecified_mappers
    /\ Has(RunParams, "mappers")
    /\ result.msg = "updated"
    /\ \E i \in 1..Len(calls) : calls[i].op = "create"
    /\ \E i \in 1..Len(Existing.mappers) : Unmentioned(i)

-----------------------------------------------------------------------------
(* C5 *)

\* C5: a real state=present run with remove_unspecified_mappers=true against
\* an existing federation deletes every existing mapper that the supplied
\* mappers list, empty or not, does not mention.
C5_UnspecifiedRemoved ==
    (/\ PresentOnExisting /\ ~module.check_mode
     /\ RunParams.remove_unspecified_mappers
     /\ Has(RunParams, "mappers")
     /\ ValidMappers(RunParams, Existing))
        => \A i \in 1..Len(Existing.mappers) :
              Unmentioned(i) => Issued("delete", Existing.mappers[i].id)

-----------------------------------------------------------------------------
(* C6 *)

OnlySecretDiffers ==
    /\ PresentOnExisting /\ OnlyIndirect
    /\ FieldsAgree(RunParams, Existing, TRUE)
    /\ ~FieldsAgree(RunParams, Existing, FALSE)
    /\ MappersAgree(RunParams, Existing)

-----------------------------------------------------------------------------
(* C7 *)

SecretAndMore ==
    /\ PresentOnExisting /\ OnlyIndirect /\ ~module.check_mode
    /\ SetsSecret
    /\ ~FieldsAgree(RunParams, Existing, FALSE)
    /\ ~FieldsAgree(RunParams, Existing, TRUE)

-----------------------------------------------------------------------------
(* C8 *)

AlwaysWithSecret ==
    /\ PresentOnExisting /\ ~OnlyIndirect /\ ~module.check_mode
    /\ SetsSecret

\* C8: with always, every real state=present run that sets
\* config.bindCredential against an existing federation finds a change and
\* sends a federation update, however often the run is repeated.
C8_SecretAlways ==
    AlwaysWithSecret => (~result.failed /\ result.msg = "updated" /\ SecretPushed)

\* the repetition of a run that had already pushed the secret
C8_Witness == AlwaysWithSecret /\ prev.ran /\ prev.msg = "updated" /\ SecretPushed

-----------------------------------------------------------------------------
(* C9 *)

MappersForUnsupported ==
    /\ Done
    /\ Has(RunParams, "mappers")
    /\ Has(RunParams, "provider_id") /\ RunParams.provider_id \in NoMapperProviders

\* C9 as stated: a run that gives a mappers list for a kerberos or sssd
\* provider fails with the validation error before any remote call, lookups
\* included.
C9_NoCallBeforeValidation ==
    MappersForUnsupported =>
        (result.failed /\ result.msg = "mappers_unsupported_provider" /\ calls = <<>>)

\* C9 amended: such a run fails before any create, update or delete call;
\* unless the lookup of the federation already ended it with the ambiguity
\* error, it fails with the validation error, after the lookups.
C9_NoMutationBeforeValidation ==
    MappersForUnsupported =>
        /\ result.failed
        /\ result.msg \in {"mappers_unsupported_provider", "ambiguous_federation"}
        /\ result.msg = "ambiguous_federation" <=> AmbiguousName
        /\ \A i \in 1..Len(calls) : calls[i].op \in Lookups
        /\ kc = pre

C9_Witness ==
    /\ MappersForUnsupported
    /\ result.msg = "mappers_unsupported_provider"
    /\ Existing # EmptyDict
    /\ Len(calls) = 2

-----------------------------------------------------------------------------
(* C10 *)

WithoutIdentity(mapper) == ~Has(mapper, "id") /\ ~Has(mapper, "name")

SomeMapperWithoutIdentity ==
    /\ Done
    /\ Has(RunParams, "mappers")
    /\ \E i \in 1..Len(RunParams.mappers) : WithoutIdentity(RunParams.mappers[i])

\* C10: if some desired mapper has neither id nor name, wherever it stands in
\* the list and whatever the realm holds, the run fails with a fatal error and
\* issues no create, update or delete call.
C10_MapperIdentity ==
    SomeMapperWithoutIdentity =>
        /\ result.failed
        /\ result.msg \in ValidationMsgs
        /\ NoMutation
        /\ kc = pre

\* the mapper without identity stands second, behind a valid one, and the
\* federation exists
C10_Witness ==
    /\ SomeMapperWithoutIdentity
    /\ Len(RunParams.mappers) = 2
    /\ ~WithoutIdentity(RunParams.mappers[1])
    /\ Existing # EmptyDict
    /\ result.msg = "mapper_without_identity"

-----------------------------------------------------------------------------
(* C11 *)

\* a state=present run with a valid, non-empty mappers list against an
\* existing federation that ended with a result: every desired mapper has
\* been matched and merged, and the merged mappers are reported as proposed
MergedOnExisting ==
    /\ PresentOnExisting
    /\ ~result.failed
    /\ Has(RunParams, "mappers")
    /\ Len(RunParams.mappers) > 0
    /\ ValidMappers(RunParams, Existing)

\* the existing mapper that desired mapper i is matched to ({} when none)
MatchOf(i) == OldMapper(RunParams.mappers[i], Existing.id, Existing)

ConfigOf(mapper) == IF Has(mapper, "config") THEN mapper.config ELSE EmptyDict

\* m, an entry of the proposed mappers, is the merge of d onto e as far as the
\* top-level fields go: e's id, and every field d supplies
MergeOf(m, d, e) ==
    /\ Has(m, "id") /\ m.id = e.id
    /\ \A k \in (DOMAIN d) \ {"config"} : Has(m, k) /\ m[k] = d[k]

\* C11 as stated: when a desired mapper is matched to an existing mapper, the
\* merged mapper has the desired config values and keeps the config keys of
\* the existing mapper that the desired mapper does not supply.
C11_MergeKeepsConfigKeys ==
    MergedOnExisting =>
        \A i \in 1..Len(RunParams.mappers) :
            LET d == RunParams.mappers[i]
                e == MatchOf(i)
            IN e # EmptyDict =>
                \E j \in 1..Len(result.proposed.mappers) :
                    LET m == result.proposed.mappers[j]
                    IN /\ MergeOf(m, d, e)
                       /\ Has(m, "config")
                       /\ \A k \in DOMAIN ConfigOf(d) :
                             Has(m.config, k) /\ m.config[k] = d.config[k][1]
                       /\ \A k \in (DOMAIN e.config) \ (DOMAIN ConfigOf(d)) :
                             Has(m.config, k) /\ m.config[k] = e.config[k][1]

\* C11 amended: the merged mapper keeps the top-level fields of the existing
\* mapper that the desired mapper does not supply; config is one such field:
\* a desired config replaces the existing config whole, and the existing
\* config is kept only when the desired mapper supplies none.
C11_MergeKeepsTopLevelFields ==
    MergedOnExisting =>
        \A i \in 1..Len(RunParams.mappers) :
            LET d == RunParams.mappers[i]
                e == MatchOf(i)
            IN e # EmptyDict =>
                \E j \in 1..Len(result.proposed.mappers) :
                    LET m == result.proposed.mappers[j]
                    IN /\ MergeOf(m, d, e)
                       /\ \A k \in (DOMAIN e) \ ((DOMAIN d) \cup {"config"}) :
                             Has(m, k) /\ m[k] = e[k]
                       /\ Has(m, "config")
                       /\ m.config = Unwrap(IF Has(d, "config") THEN d.config ELSE e.config)

\* a desired mapper with config {x: 9} matched by name to the existing mapper
\* with config {x: 1, y: 2}: the proposed mapper has config {x: 9}
C11_Witness ==
    /\ MergedOnExisting
    /\ \E i \in 1..Len(RunParams.mappers) :
          /\ MatchOf(i) # EmptyDict
          /\ ~Has(RunParams.mappers[i], "id")
          /\ Has(RunParams.mappers[i], "config")
          /\ DOMAIN MatchOf(i).config = {"x", "y"}
          /\ \E j \in 1..Len(result.proposed.mappers) :
                /\ result.proposed.mappers[j].id = MatchOf(i).id
                /\ result.proposed.mappers[j].config = [x |-> "9"]

-----------------------------------------------------------------------------
(* C12 *)

DryRun == Done /\ module.check_mode

\* C12: in check mode, on every path (create, update, delete, no-op) and for
\* every input and state of the realm, the run issues no create, update or
\* delete call, and the realm is after the run as it was before.
C12_DryRunSafety == DryRun => (NoMutation /\ kc = pre)

\* a dry run that reports a change (create, update or delete path) and the
\* same task run for real from the same realm does issue mutating calls
C12_Witness ==
    /\ DryRun
    /\ result.changed
    /\ OnExisting
    /\ Mutations(main(pre, [module EXCEPT !.check_mode = FALSE], 0).calls) # <<>>

-----------------------------------------------------------------------------
(* C13 *)

AmbiguityMsgs == {"ambiguous_federation", "ambiguous_mapper"}

EndedInAmbiguity == Done /\ result.failed /\ result.msg \in AmbiguityMsgs

\* C13: whenever a run ends with a name-ambiguity error, for a federation or
\* for a mapper, on any path, no create, update or delete call was issued
\* earlier in that run.
C13_AmbiguityBeforeMutation == EndedInAmbiguity => (NoMutation /\ kc = pre)

-----------------------------------------------------------------------------
(* C14 *)

\* a real state=present run that pushed the federation update and ended with
\* a result
RealUpdate ==
    /\ PresentOnExisting /\ ~module.check_mode
    /\ ~result.failed
    /\ Issued("update", Existing.id)

\* C14: on a real update the reported changed flag is true exactly when the
\* federation and mappers fetched after the calls differ, sanitised, from
\* those read at the start of the run, and that state is the end_state; when
\* the realm shows nothing of what was submitted, changed=false is reported
\* although the changeset was not empty.
C14_ChangedIsBeforeAfter ==
    RealUpdate =>
        /\ result.changed <=> (sanitize(Existing) # sanitize(Refetched))
        /\ result.end_state = sanitize(Refetched)
        /\ result.msg = "updated"

\* an update with a non-empty changeset of which the realm shows nothing
C14_Witness ==
    /\ RealUpdate
    /\ result.proposed # EmptyDict
    /\ ~result.changed
    /\ sanitize(Existing) = sanitize(Refetched)

\* an update the realm shows
C14_WitnessChanged == RealUpdate /\ result.changed

-----------------------------------------------------------------------------
(* C15 *)

\* a real state=absent run against an existing federation
RealDelete == OnExisting /\ RunParams.state = "absent" /\ ~module.check_mode

\* C15: a real state=absent run against an existing federation issues one
\* delete call, for the id the federation resolved to, and no other create,
\* update or delete call, for the federation or for a mapper; it reports
\* changed=true and an empty end_state.
C15_DeleteOnce ==
    RealDelete =>
        /\ ~result.failed
        /\ Mutations(calls) = <<Call("delete", Existing.id, "", EmptyDict)>>
        /\ result.changed
        /\ result.end_state = EmptyDict

\* the deleted federation had a mapper, and the mapper went with it
C15_Witness ==
    /\ RealDelete
    /\ result.msg = "deleted"
    /\ Len(Existing.mappers) > 0
    /\ get_components_by_parent(kc, Existing.id) = <<>>

-----------------------------------------------------------------------------
(* C16 *)

\* a state=absent run whose lookup, by id or by name, found no federation
AbsentOnAbsent ==
    /\ Done /\ RunParams.state = "absent"
    /\ IF Has(RunParams, "id")
       THEN get_component(pre, RunParams.id) = EmptyDict
       ELSE get_components_by_name(pre, RunParams.name) = <<>>

\* C16: a state=absent run that resolves no federation, by id or by name,
\* reports changed=false and an empty end_state and issues no create, update
\* or delete call.
C16_AbsentStaysAbsent ==
    AbsentOnAbsent =>
        /\ ~result.failed
        /\ ~result.changed
        /\ result.end_state = EmptyDict
        /\ NoMutation
        /\ kc = pre

\* the id asked for is not in a realm that holds other components
C16_Witness ==
    /\ AbsentOnAbsent
    /\ Has(RunParams, "id")
    /\ ~module.check_mode
    /\ pre # <<>>
    /\ result.msg = "does_not_exist"

-----------------------------------------------------------------------------
(* C17 *)

\* every value of a reported config is a scalar
Scalars(config) == \A k \in DOMAIN config : config[k] \in STRING

\* a reported object shows the secret, if it has one, as the placeholder, and
\* every config value, its own and its mappers', as a scalar
Redacted(o) ==
    /\ Has(o, "config") =>
          /\ Scalars(o.config)
          /\ Has(o.config, "bindCredential") => o.config.bindCredential = Mask
    /\ Has(o, "mappers") =>
          \A i \in 1..Len(o.mappers) :
              Has(o.mappers[i], "config") => Scalars(o.mappers[i].config)

\* the run wrote a diff; its before is an object when a federation was found,
\* its after is an object unless the federation is to be absent
DiffReported == Has(result.diff, "before")

\* C17: in every result a run reports (proposed, existing, end_state, diff
\* before and after), on every path, config.bindCredential, when present, is
\* the placeholder and never the plaintext, and every config value is the
\* scalar, not the one-element list.
C17_OutputsRedacted ==
    Done =>
        /\ Redacted(result.proposed)
        /\ Redacted(result.existing)
        /\ Redacted(result.end_state)
        /\ (DiffReported /\ Existing # EmptyDict) => Redacted(result.diff.before)
        /\ (DiffReported /\ RunParams.state = "present") => Redacted(result.diff.after)

\* an update that sets a plaintext secret on a federation that has one, and
\* reports it in proposed, existing, end_state and both sides of the diff
C17_Witness ==
    /\ PresentOnExisting /\ SetsSecret
    /\ RunParams.config.bindCredential \in {<<"s1">>, <<"s2">>}
    /\ result.msg = "updated"
    /\ DiffReported
    /\ result.proposed.config.bindCredential = Mask
    /\ Has(result.existing.config, "bindCredential")
    /\ result.end_state.config.bindCredential = Mask
    /\ result.diff.before.config.bindCredential = Mask
    /\ result.diff.after.config.bindCredential = Mask

-----------------------------------------------------------------------------
(* C18 *)

\* the run the interrupted one would have been, had the realm not failed
Uninterrupted == main(prev.pre, module, 0)

\* the federations of the run's name in a store, and the mappers of a
\* federation without the ids the realm gave them
FederationsIn(store) == get_components_by_name(store, RunParams.name)

MappersOf(store, fid) == get_components_by_parent(store, fid)

MapperShapes(store, fid) ==
    {DictPop(MappersOf(store, fid)[i], "id") : i \in 1..Len(MappersOf(store, fid))}

\* two stores hold the same federation with the same mappers
SameFederation(s1, s2) ==
    /\ FederationsIn(s1) = FederationsIn(s2)
    /\ \A i \in 1..Len(FederationsIn(s1)) :
          LET fid == FederationsIn(s1)[i].id
          IN /\ MapperShapes(s1, fid) = MapperShapes(s2, fid)
             /\ Len(MappersOf(s1, fid)) = Len(MappersOf(s2, fid))

\* a state=present run was aborted by an error of the realm, and the same
\* task has now run again without interruption
RunAfterAbort ==
    /\ Done /\ RunParams.state = "present"
    /\ prev.ran /\ prev.failed /\ prev.msg = "remote_error"
    /\ ~Uninterrupted.result.failed

\* C18: if a state=present run is aborted by an error of the realm after any
\* prefix of its calls, a later uninterrupted run with the same desired spec
\* ends successfully and leaves the federation and its mappers as an
\* uninterrupted first run would have left them.
C18_ConvergesAfterAbort ==
    RunAfterAbort => (~result.failed /\ SameFederation(kc, Uninterrupted.kc))

-----------------------------------------------------------------------------
(* C19 *)

\* the id of the federation the run works on: the one it found, or the one
\* its create call made
FederationId ==
    IF Existing # EmptyDict THEN Existing.id
    ELSE CreatedId(pre, Mutations(calls)[1].comp)

\* a create or update of the federation itself, and a create, update or
\* delete of anything else
FederationLevel(call) ==
    /\ call.op \in {"create", "update"}
    /\ Has(call.comp, "providerType") /\ call.comp.providerType = FedType

MapperLevel(call) ==
    /\ Mutating(call)
    /\ ~FederationLevel(call)
    /\ ~(call.op = "delete" /\ call.id = FederationId)

\* the parent a desired mapper of that name asks for by itself
ExplicitParent(name, parent) ==
    \E i \in 1..Len(RunParams.mappers) :
        /\ Has(RunParams.mappers[i], "parentId") /\ RunParams.mappers[i].parentId = parent
        /\ Has(RunParams.mappers[i], "name") /\ RunParams.mappers[i].name = name

\* C19: in every run the create (create path) or update (update path) of the
\* federation comes before every create, update or delete of a mapper, and a
\* mapper the run creates is sent with the federation's id as parentId unless
\* the desired mapper names a parent itself.
C19_ParentBeforeChildren ==
    Done =>
        LET muts == Mutations(calls)
        IN \A i \in 1..Len(muts) :
              MapperLevel(muts[i]) =>
                  /\ i > 1
                  /\ FederationLevel(muts[1])
                  /\ muts[1].op = IF Existing = EmptyDict THEN "create" ELSE "update"
                  /\ muts[i].op = "create" =>
                        /\ Has(muts[i].comp, "parentId")
                        /\ \/ muts[i].comp.parentId = FederationId
                           \/ ExplicitParent(muts[i].comp.name, muts[i].comp.parentId)

\* an update that deleted a mapper and created another under the federation
C19_Witness ==
    /\ PresentOnExisting
    /\ result.msg = "updated"
    /\ LET muts == Mutations(calls)
       IN /\ Len(muts) >= 3
          /\ muts[1].op = "update" /\ muts[1].id = Existing.id
          /\ \E i \in 2..Len(muts) : muts[i].op = "delete"
          /\ \E i \in 2..Len(muts) :
                muts[i].op = "create" /\ muts[i].comp.parentId = Existing.id

\* a creation that updated the mapper Keycloak provisioned and created another
C19_WitnessCreate ==
    /\ Done /\ result.msg = "created"
    /\ LET muts == Mutations(calls)
       IN /\ Len(muts) >= 3
          /\ \E i \in 2..Len(muts) : muts[i].op = "update"
          /\ \E i \in 2..Len(muts) :
                muts[i].op = "create" /\ muts[i].comp.parentId = FederationId

-----------------------------------------------------------------------------
(* C20 *)

\* a real state=present run that found no federation and gives a non-empty
\* list of mappers, each with an id, a name or both
CreateWithMappers ==
    /\ Done /\ Existing = EmptyDict /\ ~AmbiguousName
    /\ RunParams.state = "present" /\ ~module.check_mode
    /\ Has(RunParams, "mappers") /\ Len(RunParams.mappers) > 0
    /\ ValidMappers(RunParams, Existing)

\* the mappers Keycloak provisioned for the federation the run created
DefaultsOfRun ==
    get_components_by_parent(create_component(pre, Mutations(calls)[1].comp), FederationId)

\* the default mappers that carry the name of desired mapper d
DefaultsNamed(d) ==
    IF Has(d, "name") THEN SelectSeq(DefaultsOfRun, LAMBDA m : m.name = d.name) ELSE <<>>

\* the call was sent with every field d supplies
Carries(call, d) == \A k \in DOMAIN d : Has(call.comp, k) /\ call.comp[k] = d[k]

\* C20: on the create path, a desired mapper whose name matches exactly one
\* default mapper leads to an update of that default mapper with the desired
\* fields, a desired mapper that matches none leads to the creation of a new
\* mapper under the new federation, and the run does not fail.
C20_CreatePathMappers ==
    CreateWithMappers =>
        /\ ~result.failed
        /\ \A i \in 1..Len(RunParams.mappers) :
              LET d == RunParams.mappers[i]
              IN IF Len(DefaultsNamed(d)) = 1
                 THEN \E j \in 1..Len(calls) :
                        /\ calls[j].op = "update"
                        /\ calls[j].id = DefaultsNamed(d)[1].id
                        /\ Carries(calls[j], d)
                 ELSE \E j \in 1..Len(calls) :
                        /\ calls[j].op = "create"
                        /\ Carries(calls[j], d)
                        /\ calls[j].comp.parentId = FederationId

\* the same for desired mappers that all carry a name
C20_CreatePathNamedMappers ==
    (/\ CreateWithMappers
     /\ \A i \in 1..Len(RunParams.mappers) : Has(RunParams.mappers[i], "name"))
        => /\ ~result.failed
           /\ \A i \in 1..Len(RunParams.mappers) :
                 LET d == RunParams.mappers[i]
                 IN IF Len(DefaultsNamed(d)) = 1
                    THEN \E j \in 1..Len(calls) :
                           /\ calls[j].op = "update"
                           /\ calls[j].id = DefaultsNamed(d)[1].id
                           /\ Carries(calls[j], d)
                    ELSE \E j \in 1..Len(calls) :
                           /\ calls[j].op = "create"
                           /\ Carries(calls[j], d)
                           /\ calls[j].comp.parentId = FederationId

-----------------------------------------------------------------------------
(* C21 *)

\* a real run that created the federation and ended with its result
CreatedRun == Done /\ ~result.failed /\ result.msg = "created"

\* C21: on the create path a default mapper is deleted exactly when
\* remove_unspecified_mappers is set and the run has not updated it; a default
\* mapper the run has just updated is not deleted and is in the realm after
\* the run.
C21_DefaultMapperCleanup ==
    CreatedRun =>
        \A i \in 1..Len(DefaultsOfRun) :
            LET m == DefaultsOfRun[i]
            IN /\ Issued("delete", m.id) <=>
                     (RunParams.remove_unspecified_mappers /\ ~Issued("update", m.id))
               /\ Issued("update", m.id) =>
                     (~Issued("delete", m.id) /\ get_component(kc, m.id) # EmptyDict)
               /\ Issued("delete", m.id) => get_component(kc, m.id) = EmptyDict

\* with remove_unspecified_mappers set, the run updated the default mapper,
\* created another mapper and left the default mapper in place
C21_Witness ==
    /\ CreatedRun
    /\ RunParams.remove_unspecified_mappers
    /\ Len(DefaultsOfRun) > 0
    /\ Issued("update", DefaultsOfRun[1].id)
    /\ \E i \in 2..Len(Mutations(calls)) : Mutations(calls)[i].op = "create"
    /\ get_component(kc, DefaultsOfRun[1].id) # EmptyDict

\* with remove_unspecified_mappers set, a default mapper the run did not
\* touch was deleted
C21_WitnessDeleted ==
    /\ CreatedRun
    /\ Len(DefaultsOfRun) > 0
    /\ Issued("delete", DefaultsOfRun[1].id)

-----------------------------------------------------------------------------
(* C22 *)

\* the desired mappers after the merge, as the run reports them: the proposed
\* list, or the existing mappers when no list was given
DesiredMerged ==
    IF Has(result.proposed, "mappers") THEN result.proposed.mappers
    ELSE sanitize(Existing).mappers

\* the desired mappers that are not identical to an existing mapper, in order
ToPush == SelectSeq(DesiredMerged, LAMBDA m : ~InList(m, sanitize(Existing).mappers))

\* the mapper creates and updates the run issued, in order
MapperPushes ==
    SelectSeq(Mutations(calls), LAMBDA c : MapperLevel(c) /\ c.op # "delete")

\* C22: on a real update an existing mapper is deleted exactly when its id is
\* absent from the merged desired list; a desired mapper identical to an
\* existing mapper gets no call; every other desired mapper gets one call, an
\* update if it carries an id and a create otherwise.
C22_UpdatePathMapperCalls ==
    RealUpdate =>
        /\ \A i \in 1..Len(Existing.mappers) :
              Issued("delete", Existing.mappers[i].id) <=>
                  ~\E j \in 1..Len(DesiredMerged) :
                      Has(DesiredMerged[j], "id")
                      /\ DesiredMerged[j].id = Existing.mappers[i].id
        /\ Len(MapperPushes) = Len(ToPush)
        /\ \A j \in 1..Len(ToPush) :
              /\ MapperPushes[j].op = IF Has(ToPush[j], "id") THEN "update" ELSE "create"
              /\ Has(ToPush[j], "id") => MapperPushes[j].id = ToPush[j].id
              /\ \A k \in DOMAIN ToPush[j] :
                    SanitizeMapper(MapperPushes[j].comp)[k] = ToPush[j][k]

\* an update that left one desired mapper alone, sent a call for another and
\* deleted an existing mapper
C22_Witness ==
    /\ RealUpdate
    /\ Len(DesiredMerged) > Len(ToPush)
    /\ Len(ToPush) > 0
    /\ \E i \in 1..Len(Existing.mappers) : Issued("delete", Existing.mappers[i].id)

-----------------------------------------------------------------------------
(* C23 *)

ByNameOnly(d) == ~Has(d, "id") /\ Has(d, "name")

\* the existing mappers that carry the name of desired mapper d
NameMatches(d) == SelectSeq(Existing.mappers, LAMBDA m : m.name = d.name)

\* desired mapper d asks for something existing mapper e does not have
Changes(d, e) == \E k \in DOMAIN d : ~Has(e, k) \/ e[k] # d[k]

\* a state=present run against an existing federation with a list of mappers
\* that all have an identity, for a provider that takes mappers
MappersOnExisting ==
    /\ PresentOnExisting
    /\ Has(RunParams, "mappers")
    /\ ~(Has(RunParams, "provider_id") /\ RunParams.provider_id \in NoMapperProviders)
    /\ \A i \in 1..Len(RunParams.mappers) : ~WithoutIdentity(RunParams.mappers[i])

\* C23: on the update path a desired mapper without id whose name matches
\* one existing mapper is merged onto it and keeps its id: the run sends that
\* mapper an update with the desired fields when they change something,
\* creates no mapper of that name and does not delete the existing one; a
\* name that matches more than one existing mapper is a fatal ambiguity error
\* before any create, update or delete.
C23_MatchByName ==
    /\ (RealUpdate /\ MappersOnExisting) =>
          \A i \in 1..Len(RunParams.mappers) :
              LET d == RunParams.mappers[i]
              IN (ByNameOnly(d) /\ Len(NameMatches(d)) = 1) =>
                    LET e == NameMatches(d)[1]
                    IN /\ \E j \in 1..Len(result.proposed.mappers) :
                             MergeOf(result.proposed.mappers[j], d, e)
                       /\ ~Issued("delete", e.id)
                       /\ get_component(kc, e.id) # EmptyDict
                       /\ ~\E j \in 1..Len(calls) :
                             calls[j].op = "create" /\ calls[j].comp.name = d.name
                       /\ Changes(d, e) =>
                             \E j \in 1..Len(calls) :
                                 /\ calls[j].op = "update" /\ calls[j].id = e.id
                                 /\ Carries(calls[j], d)
    /\ (/\ MappersOnExisting
        /\ \E i \in 1..Len(RunParams.mappers) :
              /\ ByNameOnly(RunParams.mappers[i])
              /\ Len(NameMatches(RunParams.mappers[i])) > 1)
          => /\ result.failed
             /\ result.msg = "ambiguous_mapper"
             /\ NoMutation
             /\ kc = pre

\* a desired mapper given by name changed the config of the one existing
\* mapper of that name, by an update of that mapper's id
C23_Witness ==
    /\ RealUpdate /\ MappersOnExisting
    /\ \E i \in 1..Len(RunParams.mappers) :
          LET d == RunParams.mappers[i]
          IN /\ ByNameOnly(d) /\ Len(NameMatches(d)) = 1
             /\ Changes(d, NameMatches(d)[1])
             /\ Issued("update", NameMatches(d)[1].id)
             /\ get_component(kc, NameMatches(d)[1].id).config = d.config

\* a desired mapper given by name met two existing mappers of that name
C23_WitnessAmbiguous ==
    /\ MappersOnExisting
    /\ result.msg = "ambiguous_mapper"
    /\ \E i \in 1..Len(RunParams.mappers) :
          ByNameOnly(RunParams.mappers[i]) /\ Len(NameMatches(RunParams.mappers[i])) > 1

-----------------------------------------------------------------------------
(* C24 *)

\* the run was given an id that the realm does not hold
IdNotFound ==
    /\ Done
    /\ Has(RunParams, "id")
    /\ get_component(pre, RunParams.id) = EmptyDict

\* C24: when an id is given and the realm has no object of that id, the run
\* makes no lookup by name and does not fail on account of the id (only a
\* fatal condition of the desired mappers can end it); the federation counts
\* as absent: state=present takes the create path and state=absent changes
\* nothing.
C24_IdNotFound ==
    IdNotFound =>
        /\ \A i \in 1..Len(calls) : calls[i].op # "get_components_by_name"
        /\ result.failed =>
              /\ Has(RunParams, "mappers")
              /\ result.msg \in ValidationMsgs \ {"ambiguous_federation"}
        /\ ~result.failed =>
              /\ result.existing = EmptyDict
              /\ RunParams.state = "absent" =>
                    (~result.changed /\ NoMutation /\ result.msg = "does_not_exist")
              /\ RunParams.state = "present" =>
                    /\ result.changed
                    /\ IF module.check_mode THEN NoMutation
                       ELSE /\ result.msg = "created"
                            /\ Mutations(calls)[1].op = "create"
                            /\ FederationLevel(Mutations(calls)[1])
                            /\ get_component(kc, RunParams.id) # EmptyDict

\* the id is not found although the realm holds a federation of the name the
\* run gives, and the run creates the federation under the id
C24_Witness ==
    /\ IdNotFound
    /\ RunParams.state = "present" /\ ~module.check_mode
    /\ get_components_by_name(pre, RunParams.name) # <<>>
    /\ ~result.failed
    /\ result.msg = "created"

-----------------------------------------------------------------------------
(* C25 *)

\* the realm with the timestamp of the last sync taken out of the config of
\* the federation the run found
WithoutLastSync(store) ==
    [i \in 1..Len(store) |->
        IF store[i].id = Existing.id
        THEN [store[i] EXCEPT !.config = DictPop(@, "lastSync")]
        ELSE store[i]]

\* the realm with that timestamp set to another time
WithLaterSync(store) ==
    [i \in 1..Len(store) |->
        IF store[i].id = Existing.id /\ Has(store[i].config, "lastSync")
        THEN [store[i] EXCEPT !.config.lastSync = <<"later">>]
        ELSE store[i]]

\* the run found a federation that Keycloak has stamped with a last sync
OnSynced ==
    /\ OnExisting
    /\ Has(get_component(pre, Existing.id).config, "lastSync")

\* the same invocation against another realm ends as the run did: same
\* result (message, changed flag, reported objects) and same calls
SameRunFrom(store) ==
    /\ main(store, module, failAt).result = result
    /\ main(store, module, failAt).calls = calls

\* C25: a run against a federation stamped with lastSync ends as the same run
\* does against a realm that differs only in the presence or the value of
\* lastSync: same path, same calls, same changed flag.
C25_LastSyncIgnored ==
    OnSynced => (SameRunFrom(WithoutLastSync(pre)) /\ SameRunFrom(WithLaterSync(pre)))

\* a stamped federation that the desired config equals is left alone
C25_Witness ==
    /\ OnSynced
    /\ Has(RunParams, "config")
    /\ result.msg = "no_changes"
    /\ SameRunFrom(WithoutLastSync(pre))

-----------------------------------------------------------------------------
(* C26 *)

\* the federation the run found, as the realm holds it
RawExisting == get_component(pre, Existing.id)

\* the realm's federation has no krbPrincipalAttribute, the desired config
\* sets it to the empty string, and nothing else differs: the other config
\* keys (the sync timestamp aside) and the other fields are the realm's, and
\* no mappers list is given
OnlyEmptyKrbDiffers ==
    /\ PresentOnExisting
    /\ ~Has(RunParams, "mappers")
    /\ Has(RunParams, "config")
    /\ ~Has(RawExisting.config, "krbPrincipalAttribute")
    /\ Has(RunParams.config, "krbPrincipalAttribute")
    /\ RunParams.config.krbPrincipalAttribute = <<"">>
    /\ DictPop(RunParams.config, "krbPrincipalAttribute")
          = DictPop(RawExisting.config, "lastSync")
    /\ \A k \in comp_params(RunParams) \ {"config"} :
          Has(RawExisting, camel(k)) /\ RawExisting[camel(k)] = RunParams[k]

\* C26: an existing federation whose config has no krbPrincipalAttribute
\* equals, for that key, a desired state that sets it to the empty string;
\* when nothing else differs the run takes the no-op exit with changed=false.
C26_EmptyKrbIsNoChange ==
    OnlyEmptyKrbDiffers =>
        /\ ~result.failed
        /\ ~result.changed
        /\ result.msg = "no_changes"
        /\ NoMutation
        /\ ~Has(result.proposed, "config")

C26_Witness ==
    /\ OnlyEmptyKrbDiffers
    /\ ~module.check_mode
    /\ result.msg = "no_changes"
    /\ result.existing.config.krbPrincipalAttribute = ""

-----------------------------------------------------------------------------
(* C27 *)

\* the orders a list of n mappers can be given in
Orders(n) == {p \in [1..n -> 1..n] : \A i, j \in 1..n : p[i] = p[j] => i = j}

\* the invocation of the run with its mappers listed in order p
Reordered(p) ==
    [module EXCEPT !.params.mappers = [i \in 1..Len(module.params.mappers) |->
                                          module.params.mappers[p[i]]]]

CallSet(log) == {Mutations(log)[i] : i \in 1..Len(Mutations(log))}

\* C27: for a fixed state of the realm, the order in which the desired mappers
\* are listed changes neither whether the run finds nothing to do, nor the
\* set of create, update and delete calls it issues, nor the changed flag.
C27_OrderIndependence ==
    (Done /\ Has(RunParams, "mappers")) =>
        \A p \in Orders(Len(RunParams.mappers)) :
            LET other == main(pre, Reordered(p), failAt)
            IN /\ (other.result.msg = "no_changes") <=> (result.msg = "no_changes")
               /\ CallSet(other.calls) = CallSet(calls)
               /\ other.result.changed = result.changed

-----------------------------------------------------------------------------
(* C28 *)

\* a present run that keeps unspecified mappers, against a federation whose
\* fields are the desired ones and whose mappers hold every desired mapper as
\* it is desired
RetainedAgree ==
    /\ PresentOnExisting
    /\ ~result.failed
    /\ Has(RunParams, "mappers")
    /\ ~RunParams.remove_unspecified_mappers
    /\ FieldsAgree(RunParams, Existing, OnlyIndirect)
    /\ ValidMappers(RunParams, Existing)
    /\ \A i \in 1..Len(RunParams.mappers) :
          /\ MatchOf(i) # EmptyDict
          /\ ~Changes(RunParams.mappers[i], MatchOf(i))

Unspecified ==
    SelectSeq(Existing.mappers, LAMBDA e : ~Mentioned(e, RunParams))

\* C28: with remove_unspecified_mappers=false, a run whose federation fields
\* and desired mappers all equal what exists takes the no-op exit without a
\* create, update or delete call, whatever unspecified mappers exist.
C28_NoOpWithRetainedMappers ==
    RetainedAgree =>
        /\ result.msg = "no_changes"
        /\ ~result.changed
        /\ NoMutation

\* the same when the desired mappers match distinct existing mappers and no
\* unspecified mapper's name sorts before a desired one
C28_NoOpWithRetainedMappersLast ==
    (/\ RetainedAgree
     /\ \A i, j \in 1..Len(RunParams.mappers) : i # j => MatchOf(i).id # MatchOf(j).id
     /\ \A i \in 1..Len(RunParams.mappers), j \in 1..Len(Unspecified) :
            NameRank(MatchOf(i).name) <= NameRank(Unspecified[j].name))
    => (result.msg = "no_changes" /\ ~result.changed /\ NoMutation)

C28_WitnessLast ==
    /\ RetainedAgree
    /\ Len(Unspecified) > 0
    /\ result.msg = "no_changes"

-----------------------------------------------------------------------------
(* C29 *)

\* the run of the same invocation from the same realm with check mode off
RealRun == main(pre, [module EXCEPT !.check_mode = FALSE], 0)

\* C29: the changed flag a check-mode run reports is the changed flag the
\* real run from the same state of the realm reports.
C29_DryRunFidelity ==
    (DryRun /\ ~result.failed /\ ~RealRun.result.failed) =>
        result.changed = RealRun.result.changed

\* the same on every path but the update path
C29_DryRunFidelityOffUpdatePath ==
    (/\ DryRun /\ ~result.failed /\ ~RealRun.result.failed
     /\ RealRun.result.msg # "updated")
    => result.changed = RealRun.result.changed

-----------------------------------------------------------------------------
(* C30 *)

NoMappersGiven == OnExisting /\ ~Has(RunParams, "mappers")

\* C30: a run without a mappers parameter against an existing federation
\* issues no create, update or delete of a mapper, whatever
\* remove_unspecified_mappers is and whether or not federation fields change.
C30_MappersLeftAlone ==
    NoMappersGiven =>
        \A i \in 1..Len(calls) : ~MapperLevel(calls[i])

C30_Witness ==
    /\ NoMappersGiven
    /\ RunParams.remove_unspecified_mappers
    /\ Len(Existing.mappers) > 0
    /\ result.msg = "updated"
    /\ result.changed
    /\ Issued("update", Existing.id)

-----------------------------------------------------------------------------
(* C31 *)

\* the string a given value is sent as
SentAs(v) ==
    IF v.t = "str" THEN v.v
    ELSE IF v.t = "bool" THEN (IF v.v = "True" THEN "true" ELSE "false")
    ELSE v.v

Given(config) == {k \in DOMAIN config : config[k].t # "none"}

\* encoded is the encoding the claim describes of the config as given
EncodedAs(encoded, given) ==
    /\ DOMAIN encoded = Given(given)
    /\ \A k \in Given(given) : encoded[k] = <<SentAs(given[k])>>

\* shown holds, for each key in keys, the string the given value is sent as
ShownAs(shown, given, keys) ==
    \A k \in keys : Has(shown, k) /\ shown[k] = SentAs(given[k])

\* a run that creates the federation from a config and one mapper with config
CodecCreate ==
    /\ Done /\ ~result.failed
    /\ Existing = EmptyDict
    /\ RunParams.state = "present"
    /\ Has(module.params, "config")
    /\ Has(module.params, "mappers")
    /\ Len(module.params.mappers) = 1
    /\ Has(module.params.mappers[1], "config")

\* the payloads of a real creation: the federation's, and the mapper's
Payloads ==
    /\ result.msg = "created"
    /\ Len(Mutations(calls)) >= 2
    /\ EncodedAs(Mutations(calls)[1].comp.config, module.params.config)
    /\ EncodedAs(Mutations(calls)[2].comp.config, module.params.mappers[1].config)

\* C31: in the federation config and in a mapper config alike, None values
\* are dropped and every other value is sent as a one-element list holding a
\* string (a string unchanged, a boolean as true/false, another scalar as its
\* string form), and sanitize of the encoded config returns that string for
\* every key.
C31_ValueEncoding ==
    CodecCreate =>
        IF module.check_mode
        THEN /\ ShownAs(result.diff.after.config, module.params.config,
                        Given(module.params.config))
             /\ ShownAs(result.diff.after.mappers[1].config, module.params.mappers[1].config,
                        Given(module.params.mappers[1].config))
        ELSE Payloads

\* amended: sanitize returns the mask for the federation's bindCredential and
\* the string for every other key; a mapper's bindCredential is not masked
C31_ValueEncodingSecretMasked ==
    CodecCreate =>
        IF module.check_mode
        THEN /\ DOMAIN result.diff.after.config = Given(module.params.config)
             /\ ShownAs(result.diff.after.config, module.params.config,
                        Given(module.params.config) \ {"bindCredential"})
             /\ "bindCredential" \in Given(module.params.config) =>
                    result.diff.after.config.bindCredential = Mask
             /\ DOMAIN result.diff.after.mappers[1].config
                    = Given(module.params.mappers[1].config)
             /\ ShownAs(result.diff.after.mappers[1].config, module.params.mappers[1].config,
                        Given(module.params.mappers[1].config))
        ELSE Payloads

C31_Witness ==
    /\ CodecCreate
    /\ module.check_mode
    /\ module.params.config.bindCredential = StrV("s1")
    /\ module.params.config.priority = BoolV("False")
    /\ module.params.mappers[1].config.x = StrV("True")
    /\ result.diff.after.config.priority = "false"
    /\ result.diff.after.mappers[1].config.x = "True"

C31_WitnessSent ==
    /\ CodecCreate
    /\ ~module.check_mode
    /\ module.params.config.priority = NoneValue
    /\ module.params.mappers[1].config.x = BoolV("True")
    /\ Payloads

====
